---- MODULE Spec2Model ----
(***************************************************************************)
(* The clip region stack of Fl_GDI_Graphics_Driver (push_clip, pop_clip,   *)
(* clip_box, not_clipped, restore_clip) and the primitives that draw       *)
(* through the clip selected into the native drawing context.              *)
(*                                                                         *)
(* A native region (HRGN) is modelled by the set of device pixels it       *)
(* covers; the NULL handle is a value of its own.  The display surface at  *)
(* scale 1 is modelled, where scale_clip() leaves the region as it is.     *)
(*                                                                         *)
(* Also the pens of change_pen_width and reset_pen_width (a native pen is  *)
(* a handle with a style, a width and a colour), the live native regions,  *)
(* the lines, loops and polygons, and the outlines of overlay_rect and     *)
(* focus_rect, which map their rectangle by floor() at a rational scale.   *)
(***************************************************************************)
EXTENDS Integers, FiniteSets, Sequences, TLC

\* ------------------------------------------------------------------ bounds
\* the largest x or y argument of a call (the smallest is MinCoord)
MaxCoord == 0
\* the largest w or h argument of a call (the smallest is 0)
MaxSize == 2
\* Fl_Graphics_Driver::region_stack_max, the index of the last stack slot
region_stack_max == 2
\* the number of restore_clip() calls followed
MaxClipState == 4
\* the largest pen width (the smallest is 0)
MaxWidth == 2
\* the number of change_pen_width() calls followed
MaxPens == 3
\* the scale factors are the rationals n/d, n in 1..MaxScaleNum, d in 1..MaxScaleDen
MaxScaleNum == 4
MaxScaleDen == 2
\* print surfaces map the logical coordinate v to the device coordinate
\* k*v + t, k in 1..MaxMapScale, t in 0..MaxMapShift
MaxMapScale == 2
MaxMapShift == 1
\* the largest srclen and the largest dstlen of a utf8fromwc() call
MaxSrcLen == 3
MaxDstLen == 5
\* the number of threads that call the locks
NThreads == 2

MinCoord == 0 - 1
Coords == MinCoord..MaxCoord
Sizes == 0..MaxSize
Widths == 0..MaxWidth
Colors == {"FL_WHITE", "FL_BLACK"}
Styles == {"FL_SOLID", "FL_DOT"}
Scales == {<<n, d>> : n \in 1..MaxScaleNum, d \in 1..MaxScaleDen}

\* ------------------------------------------------------- native regions
\* the NULL region handle: "no region", the bottom sentinel of rstack
NoRegion == [null |-> TRUE, px |-> {}]

\* CreateRectRgn(left, top, right, bottom): right and bottom are exclusive
CreateRectRgn(left, top, right, bottom) ==
  [null |-> FALSE,
   px |-> {<<i, j>> : i \in left..(right - 1), j \in top..(bottom - 1)}]

\* XRectangleRegion(x,y,w,h) on the display surface
XRectangleRegion(x, y, w, h) == CreateRectRgn(x, y, x + w, y + h)

\* CombineRgn(dst, a, b, RGN_AND): the region written to dst
CombineRgn_AND(a, b) == [null |-> FALSE, px |-> a.px \cap b.px]

\* EqualRgn(a, b)
EqualRgn(a, b) == a.px = b.px

SetMin(S) == CHOOSE m \in S : \A n \in S : m <= n
SetMax(S) == CHOOSE m \in S : \A n \in S : m >= n

\* GetRgnBox(r, &rect) of a non-empty region: its bounding rectangle
GetRgnBox(r) ==
  [left   |-> SetMin({p[1] : p \in r.px}),
   top    |-> SetMin({p[2] : p \in r.px}),
   right  |-> SetMax({p[1] : p \in r.px}) + 1,
   bottom |-> SetMax({p[2] : p \in r.px}) + 1]

\* RectInRegion(r, &rect): non-zero when any pixel of rect is in r
RectInRegion(r, rect) ==
  IF \E i \in rect.left..(rect.right - 1), j \in rect.top..(rect.bottom - 1) :
       <<i, j>> \in r.px
  THEN 1 ELSE 0

\* ------------------------------------------------------------ the driver
VARIABLES
  rstack,                \* Fl_Region rstack[]: slots 0..region_stack_max
  rstackptr,             \* index of the top of rstack
  gc_,                   \* TRUE when the driver has a drawing context
  gc_clip,               \* the clip region selected into the context
  fl_clip_state_number,  \* bumped by every restore_clip()
  call,                  \* the operation that ran last
  warned,                \* the last operation called Fl::warning
  query,                 \* the rectangle the last query was asked about
  out,                   \* what the last query returned
  drawn,                 \* the pixels the last drawing call changed
  live_regions,          \* the number of native regions created and not deleted
  pens,                  \* the live native pens: handle -> style, width, colour
  gc_pen,                \* the handle of the pen selected into the context
  held,                  \* the handles change_pen_width() returned, not yet reset
  next_pen,              \* the handle the next pen created will get
  nested,                \* every reset so far was given the latest handle held
  color_,                \* the current colour, color()
  scale_,                \* scale(), the rational <<numerator, denominator>>
  pts,                   \* the end points or vertices the last line call was given
  surface,               \* the current surface and its logical-to-device mapping
  utf_src,               \* utf8fromwc: the UTF-16 units of src (srclen of them)
  utf_dstlen,            \* utf8fromwc: dstlen
  utf_ret,               \* utf8fromwc: the value returned
  utf_dst,               \* utf8fromwc: the bytes written to dst, from dst[0] on
  pc,                    \* where each thread is in lock(), unlock() and the ring calls
  main_thread,           \* static DWORD main_thread (0: not set)
  cs,                    \* static CRITICAL_SECTION cs
  cs_ring,               \* static CRITICAL_SECTION *cs_ring (0: null)
  ring,                  \* the critical sections lock_ring() allocated
  first_locked           \* the first thread whose lock() returned (0: none yet)

\* the text conversion
utfvars == <<utf_src, utf_dstlen, utf_ret, utf_dst>>

\* the locks of the system driver
lockvars == <<pc, main_thread, cs, cs_ring, ring, first_locked>>

\* what no call of the graphics driver changes
standing == <<scale_, surface, utfvars, lockvars>>

\* the pen side of the driver
penvars == <<pens, gc_pen, held, next_pen, nested, color_>>

vars == <<rstack, rstackptr, gc_, gc_clip, fl_clip_state_number,
          call, warned, query, out, drawn, live_regions, penvars, scale_, pts,
          surface, utfvars, lockvars>>

NoQuery == [x |-> 0, y |-> 0, w |-> 0, h |-> 0]

NoOut == [ret |-> 0, X |-> 0, Y |-> 0, W |-> 0, H |-> 0]

\* push_clip_region with RGN_OR in place of RGN_AND
push_clip_region_or(current, x, y, w, h) ==
  IF w > 0 /\ h > 0
  THEN IF ~current.null
       THEN [null |-> FALSE, px |-> XRectangleRegion(x, y, w, h).px \cup current.px]
       ELSE XRectangleRegion(x, y, w, h)
  ELSE CreateRectRgn(0, 0, 0, 0)

\* push_clip_region without the CombineRgn() call
push_clip_region_alone(current, x, y, w, h) ==
  IF w > 0 /\ h > 0
  THEN XRectangleRegion(x, y, w, h)
  ELSE CreateRectRgn(0, 0, 0, 0)

\* push_clip_region that leaves r NULL for a degenerate rectangle
push_clip_region_null(current, x, y, w, h) ==
  IF w > 0 /\ h > 0
  THEN IF ~current.null
       THEN CombineRgn_AND(XRectangleRegion(x, y, w, h), current)
       ELSE XRectangleRegion(x, y, w, h)
  ELSE NoRegion

\* the region push_clip() is about to store, given the current top
push_clip_region(current, x, y, w, h) ==
  IF w > 0 /\ h > 0
  THEN IF ~current.null
       THEN CombineRgn_AND(XRectangleRegion(x, y, w, h), current)
       ELSE XRectangleRegion(x, y, w, h)
  ELSE CreateRectRgn(0, 0, 0, 0)

\* push_clip_stack that stores the region whatever the depth, without warning
push_clip_stack_unchecked(stk, ptr, x, y, w, h) ==
  LET r == push_clip_region(stk[ptr], x, y, w, h)
  IN IF ptr < region_stack_max
     THEN [rstack |-> [stk EXCEPT ![ptr + 1] = r], rstackptr |-> ptr + 1,
           warned |-> FALSE]
     ELSE [rstack |-> [stk EXCEPT ![ptr] = r], rstackptr |-> ptr, warned |-> FALSE]

\* push_clip_stack with rstack[rstackptr++] = r in place of rstack[++rstackptr] = r
push_clip_stack_postinc(stk, ptr, x, y, w, h) ==
  LET r == push_clip_region(stk[ptr], x, y, w, h)
  IN IF ptr < region_stack_max
     THEN [rstack |-> [stk EXCEPT ![ptr] = r], rstackptr |-> ptr + 1,
           warned |-> FALSE]
     ELSE [rstack |-> stk, rstackptr |-> ptr, warned |-> TRUE]

\* push_clip() on the stack (stk, ptr), before its fl_restore_clip()
push_clip_stack(stk, ptr, x, y, w, h) ==
  LET r == push_clip_region(stk[ptr], x, y, w, h)
  IN IF ptr < region_stack_max
     THEN [rstack |-> [stk EXCEPT ![ptr + 1] = r], rstackptr |-> ptr + 1,
           warned |-> FALSE]
     ELSE [rstack |-> stk, rstackptr |-> ptr, warned |-> TRUE]

\* the region push_clip() is about to store when the native allocation fails:
\* XRectangleRegion() or CreateRectRgn(0,0,0,0) returns NULL, CombineRgn() on a
\* NULL destination fails and changes nothing, r is still NULL
push_clip_region_nomem(current, x, y, w, h) == NoRegion

\* push_clip() on the stack (stk, ptr) when the native allocation fails: r is
\* stored without a test
push_clip_stack_nomem(stk, ptr, x, y, w, h) ==
  LET r == push_clip_region_nomem(stk[ptr], x, y, w, h)
  IN IF ptr < region_stack_max
     THEN [rstack |-> [stk EXCEPT ![ptr + 1] = r], rstackptr |-> ptr + 1,
           warned |-> FALSE]
     ELSE [rstack |-> stk, rstackptr |-> ptr, warned |-> TRUE]

\* pop_clip() on the stack (stk, ptr), ptr > 0: the top is destroyed
pop_clip_stack(stk, ptr) ==
  [rstack |-> [stk EXCEPT ![ptr] = NoRegion], rstackptr |-> ptr - 1]

\* the live native regions after push_clip(): r is created on either branch
\* (XRectangleRegion or CreateRectRgn) and is deleted on none
push_clip_regions(n) == n + 1

\* the live native regions after pop_clip(): the popped region is destroyed
pop_clip_regions(oldr, n) == IF oldr.null THEN n ELSE n - 1

\* clip_box_regions that returns from the disjoint branch at once
clip_box_regions_leaky(r, x, y, w, h, n) ==
  IF r.null THEN n
  ELSE LET rr == XRectangleRegion(x, y, w, h)
           created == n + 2
       IN IF CombineRgn_AND(rr, r).px = {} THEN created ELSE created - 2

\* the live native regions after clip_box(): none is created for the sentinel;
\* otherwise rr and temp are created and both deleted after the three branches
clip_box_regions(r, x, y, w, h, n) ==
  IF r.null THEN n
  ELSE LET created == n + 2
       IN created - 2

\* restore_clip_gc that calls SelectClipRgn() only for a non-NULL top
restore_clip_gc_nonnull(gc, clip, top) == IF gc /\ ~top.null THEN top ELSE clip

\* restore_clip that counts only when a drawing context is set
restore_clip_number_gc(gc, n) == IF gc THEN n + 1 ELSE n

\* fl_clip_state_number++ in restore_clip(), before the test of gc_
restore_clip_number(gc, n) == n + 1

\* SelectClipRgn(gc_, top) in restore_clip(): the clip the context ends with
restore_clip_gc(gc, clip, top) == IF gc THEN top ELSE clip

\* clip_box that takes the intersection for complete when its bounding box is
\* the query rectangle (regions compared by their boxes, not pixel by pixel)
clip_box_by_box(r, x, y, w, h) ==
  IF r.null THEN [ret |-> 0, X |-> x, Y |-> y, W |-> w, H |-> h]
  ELSE LET rr == XRectangleRegion(x, y, w, h)
           temp == CombineRgn_AND(rr, r)
       IN IF temp.px = {}
          THEN [ret |-> 2, X |-> x, Y |-> y, W |-> 0, H |-> 0]
          ELSE IF GetRgnBox(temp) = GetRgnBox(rr)
          THEN [ret |-> 0, X |-> x, Y |-> y, W |-> w, H |-> h]
          ELSE LET rect == GetRgnBox(temp)
               IN [ret |-> 1, X |-> rect.left, Y |-> rect.top,
                   W |-> rect.right - rect.left, H |-> rect.bottom - rect.top]

\* clip_box that reports the box of a partial intersection by its last pixel
\* (W = right - X - 1, H = bottom - Y - 1)
clip_box_short(r, x, y, w, h) ==
  IF r.null THEN [ret |-> 0, X |-> x, Y |-> y, W |-> w, H |-> h]
  ELSE LET rr == XRectangleRegion(x, y, w, h)
           temp == CombineRgn_AND(rr, r)
       IN IF temp.px = {}
          THEN [ret |-> 2, X |-> x, Y |-> y, W |-> 0, H |-> 0]
          ELSE IF EqualRgn(temp, rr)
          THEN [ret |-> 0, X |-> x, Y |-> y, W |-> w, H |-> h]
          ELSE LET rect == GetRgnBox(temp)
               IN [ret |-> 1, X |-> rect.left, Y |-> rect.top,
                   W |-> rect.right - rect.left - 1,
                   H |-> rect.bottom - rect.top - 1]

\* clip_box(x,y,w,h,X,Y,W,H) against the top region r, display surface
clip_box(r, x, y, w, h) ==
  IF r.null THEN [ret |-> 0, X |-> x, Y |-> y, W |-> w, H |-> h]
  ELSE LET rr == XRectangleRegion(x, y, w, h)
           temp == CombineRgn_AND(rr, r)
       IN IF temp.px = {}
          THEN [ret |-> 2, X |-> x, Y |-> y, W |-> 0, H |-> 0]
          ELSE IF EqualRgn(temp, rr)
          THEN [ret |-> 0, X |-> x, Y |-> y, W |-> w, H |-> h]
          ELSE LET rect == GetRgnBox(temp)
               IN [ret |-> 1, X |-> rect.left, Y |-> rect.top,
                   W |-> rect.right - rect.left, H |-> rect.bottom - rect.top]

\* not_clipped without the early return for rectangles left of or above 0
not_clipped_unguarded(r, x, y, w, h) ==
  IF r.null THEN 1
  ELSE RectInRegion(r, [left |-> x, top |-> y, right |-> x + w, bottom |-> y + h])

\* not_clipped(x,y,w,h) against the top region r, display surface
not_clipped(r, x, y, w, h) ==
  IF x + w <= 0 \/ y + h <= 0 THEN 0
  ELSE IF r.null THEN 1
  ELSE RectInRegion(r, [left |-> x, top |-> y, right |-> x + w, bottom |-> y + h])

\* the pixels of S a GDI call changes in a context with the clip selected
Clipped(gc, clip, S) ==
  IF ~gc THEN {} ELSE IF clip.null THEN S ELSE S \cap clip.px

\* FillRect(gc_, &rect, brush): the pixels it changes under the selected clip
FillRect(gc, clip, rect) ==
  Clipped(gc, clip, CreateRectRgn(rect.left, rect.top, rect.right, rect.bottom).px)

\* rectf_unscaled(x,y,w,h)
rectf_unscaled(gc, clip, x, y, w, h) ==
  FillRect(gc, clip, [left |-> x, top |-> y, right |-> x + w, bottom |-> y + h])

Abs(a) == IF a < 0 THEN 0 - a ELSE a

\* a / n rounded to the nearest integer, n > 0
RoundDiv(a, n) == (2 * a + n) \div (2 * n)

\* LPtoDP(gc_, pt, n) on one coordinate of a surface sf
LPtoDP(sf, v) == sf.k * v + sf.t

\* DPtoLP(gc_, pt, n) on one coordinate of a surface sf
DPtoLP(sf, d) == RoundDiv(d - sf.t, sf.k)

\* XRectangleRegion(x,y,w,h) on a print surface: the rectangle in device units
XRectangleRegion_print(sf, x, y, w, h) ==
  CreateRectRgn(LPtoDP(sf, x), LPtoDP(sf, y), LPtoDP(sf, x + w), LPtoDP(sf, y + h))

\* clip_box(x,y,w,h,X,Y,W,H) against the top region r, print surface sf
clip_box_print(sf, r, x, y, w, h) ==
  IF r.null THEN [ret |-> 0, X |-> x, Y |-> y, W |-> w, H |-> h]
  ELSE LET rr == XRectangleRegion_print(sf, x, y, w, h)
           temp == CombineRgn_AND(rr, r)
       IN IF temp.px = {}
          THEN [ret |-> 2, X |-> x, Y |-> y, W |-> 0, H |-> 0]
          ELSE IF EqualRgn(temp, rr)
          THEN [ret |-> 0, X |-> x, Y |-> y, W |-> w, H |-> h]
          ELSE LET rect == GetRgnBox(temp)
                   X == DPtoLP(sf, rect.left)
                   Y == DPtoLP(sf, rect.top)
               IN [ret |-> 1, X |-> X, Y |-> Y,
                   W |-> DPtoLP(sf, rect.right) - X, H |-> DPtoLP(sf, rect.bottom) - Y]

\* not_clipped(x,y,w,h) against the top region r, print surface sf
not_clipped_print(sf, r, x, y, w, h) ==
  IF x + w <= 0 \/ y + h <= 0 THEN 0
  ELSE IF r.null THEN 1
  ELSE RectInRegion(r, [left |-> LPtoDP(sf, x), top |-> LPtoDP(sf, y),
                        right |-> LPtoDP(sf, x + w), bottom |-> LPtoDP(sf, y + h)])

\* the pixels of the segment from (x0,y0) towards (x1,y1), one for each step
\* along its longer axis, the end point left out; none when the two coincide
LinePixels(x0, y0, x1, y1) ==
  LET dx == x1 - x0
      dy == y1 - y0
      n  == IF Abs(dx) >= Abs(dy) THEN Abs(dx) ELSE Abs(dy)
  IN {<<x0 + RoundDiv(k * dx, n), y0 + RoundDiv(k * dy, n)>> : k \in 0..(n - 1)}

\* MoveToEx(gc_, x0, y0); LineTo(gc_, x1, y1), or a LineTo() from where the
\* last one ended, pen width 1: every pixel from the start up to, not
\* including, the end point
LineTo(gc, clip, x0, y0, x1, y1) == Clipped(gc, clip, LinePixels(x0, y0, x1, y1))

\* SetPixel(gc_, x, y, c)
SetPixel(gc, clip, x, y) == Clipped(gc, clip, {<<x, y>>})

\* xyline_unscaled(x, y, x1)
xyline_unscaled(gc, clip, x, y, x1) == LineTo(gc, clip, x, y, x1 + 1, y)

\* yxline_unscaled(x, y, y1)
yxline_unscaled(gc, clip, x, y, y1) == LineTo(gc, clip, x, y, x, y1 + 1)

\* line_unscaled(x, y, x1, y1)
line_unscaled(gc, clip, x, y, x1, y1) ==
  LineTo(gc, clip, x, y, x1, y1) \cup SetPixel(gc, clip, x1, y1)

\* line_unscaled(x, y, x1, y1, x2, y2)
line_unscaled3(gc, clip, x, y, x1, y1, x2, y2) ==
  LineTo(gc, clip, x, y, x1, y1) \cup LineTo(gc, clip, x1, y1, x2, y2)
    \cup SetPixel(gc, clip, x2, y2)

\* loop_unscaled(x, y, x1, y1, x2, y2)
loop_unscaled(gc, clip, x, y, x1, y1, x2, y2) ==
  LineTo(gc, clip, x, y, x1, y1) \cup LineTo(gc, clip, x1, y1, x2, y2)
    \cup LineTo(gc, clip, x2, y2, x, y)

\* loop_unscaled(x, y, x1, y1, x2, y2, x3, y3)
loop_unscaled4(gc, clip, x, y, x1, y1, x2, y2, x3, y3) ==
  LineTo(gc, clip, x, y, x1, y1) \cup LineTo(gc, clip, x1, y1, x2, y2)
    \cup LineTo(gc, clip, x2, y2, x3, y3) \cup LineTo(gc, clip, x3, y3, x, y)

\* the ray from p to the right crosses the edge from a to b
Crosses(p, a, b) ==
  /\ (a[2] > p[2]) # (b[2] > p[2])
  /\ LET lhs == (p[1] - a[1]) * (b[2] - a[2])
         rhs == (p[2] - a[2]) * (b[1] - a[1])
     IN IF b[2] > a[2] THEN lhs < rhs ELSE lhs > rhs

\* Polygon(gc_, p, n): the closed outline in the pen and the pixels inside it
\* (an odd number of edges to their right) in the brush
Polygon(gc, clip, p) ==
  LET n == Len(p)
      succ(i) == (i % n) + 1
      outline == UNION {LinePixels(p[i][1], p[i][2], p[succ(i)][1], p[succ(i)][2]) : i \in 1..n}
      inside == {q \in Coords \X Coords :
                   Cardinality({i \in 1..n : Crosses(q, p[i], p[succ(i)])}) % 2 = 1}
  IN Clipped(gc, clip, outline \cup inside)

\* polygon_unscaled(x, y, x1, y1, x2, y2)
polygon_unscaled(gc, clip, x, y, x1, y1, x2, y2) ==
  Polygon(gc, clip, <<(<<x, y>>), (<<x1, y1>>), (<<x2, y2>>)>>)

\* polygon_unscaled(x, y, x1, y1, x2, y2, x3, y3)
polygon_unscaled4(gc, clip, x, y, x1, y1, x2, y2, x3, y3) ==
  Polygon(gc, clip, <<(<<x, y>>), (<<x1, y1>>), (<<x2, y2>>), (<<x3, y3>>)>>)

\* floor(x): the device coordinate of the logical coordinate x at scale s,
\* the largest integer not above s*x
floor(x, s) == (x * s[1]) \div s[2]

\* overlay_rect_right with floor(x+w) for the right edge
overlay_rect_right_next(x, w, s) == floor(x + w, s)

\* overlay_rect: int right = this->floor(x+w-1) (bottom likewise, from y and h)
overlay_rect_right(x, w, s) == floor(x + w - 1, s)

\* overlay_rect(x,y,w,h): the pixels of the outline the four LineTo() calls
\* trace (a dotted pen fills its gaps with the background colour)
overlay_rect_pixels(gc, clip, x, y, w, h, s) ==
  LET right  == overlay_rect_right(x, w, s)
      bottom == overlay_rect_right(y, h, s)
      X == floor(x, s)
      Y == floor(y, s)
  IN LineTo(gc, clip, X, Y, right, Y) \cup LineTo(gc, clip, right, Y, right, bottom)
       \cup LineTo(gc, clip, right, bottom, X, bottom) \cup LineTo(gc, clip, X, bottom, X, Y)

\* line_style_unscaled(style, width, NULL): the driver's pen with that style
\* and width
line_style_unscaled(pen, style, width) == [pen EXCEPT !.style = style, !.width = width]

\* focus_rect_visits whose first loop runs to xx <= w
focus_rect_visits_closed(x, y, w, h, s) ==
  LET W == floor(x + w - 1, s) - floor(x, s) + 1
      H == floor(y + h - 1, s) - floor(y, s) + 1
      X == floor(x, s)
      Y == floor(y, s)
  IN [k \in 1..(W + 1) |-> <<X + (k - 1), Y>>]
       \o [k \in 1..H |-> <<X + W, Y + (k - 1)>>]
       \o [k \in 1..W |-> <<X + (W - k + 1), Y + H>>]
       \o [k \in 1..H |-> <<X, Y + (H - k + 1)>>]

\* focus_rect(x,y,w,h): the positions its four loops pass, in order; i starts
\* at 1 and grows by one with every position, so the i-th has i = its index
focus_rect_visits(x, y, w, h, s) ==
  LET W == floor(x + w - 1, s) - floor(x, s) + 1
      H == floor(y + h - 1, s) - floor(y, s) + 1
      X == floor(x, s)
      Y == floor(y, s)
  IN [k \in 1..W |-> <<X + (k - 1), Y>>]
       \o [k \in 1..H |-> <<X + W, Y + (k - 1)>>]
       \o [k \in 1..W |-> <<X + (W - k + 1), Y + H>>]
       \o [k \in 1..H |-> <<X, Y + (H - k + 1)>>]

\* focus_rect(x,y,w,h): SetPixel() at every position with (i & 1)
focus_rect_pixels(gc, clip, x, y, w, h, s) ==
  LET v == focus_rect_visits(x, y, w, h, s)
  IN Clipped(gc, clip, {v[i] : i \in {j \in 1..Len(v) : j % 2 = 1}})

\* ------------------------------------------------------------------ pens
\* the NULL pen handle, what a failed SelectObject() returns
NoPen == 0 - 1

\* ExtCreatePen(PS_GEOMETRIC | PS_ENDCAP_FLAT | PS_JOIN_ROUND, width, &penbrush):
\* a new solid pen of the given width in the colour of penbrush, fl_RGB()
ExtCreatePen(P, width, color) ==
  [P EXCEPT !.pens = P.pens @@ (P.next_pen :> [style |-> "FL_SOLID", width |-> width,
                                               color |-> color]),
            !.next_pen = P.next_pen + 1,
            !.ret = P.next_pen]

\* SelectObject(gc_, pen): selects a live pen and returns the pen selected
\* before; fails, returning NULL, for a handle that is not a live pen
SelectObject(P, pen) ==
  IF pen \in DOMAIN P.pens
  THEN [P EXCEPT !.gc_pen = pen, !.ret = P.gc_pen]
  ELSE [P EXCEPT !.ret = NoPen]

\* DeleteObject(pen): the pen is no longer live; fails for a dead handle
DeleteObject(P, pen) ==
  [P EXCEPT !.pens = [p \in (DOMAIN P.pens) \ {pen} |-> P.pens[p]]]

\* the pens of the driver as one value, ret being what the last call returned
PenState(ps, sel, nxt) == [pens |-> ps, gc_pen |-> sel, next_pen |-> nxt, ret |-> NoPen]

\* change_pen_width(width): create the pen, select it, return the previous pen
change_pen_width_pen(P, width, color) ==
  LET created == ExtCreatePen(P, width, color)
  IN SelectObject(created, created.ret)

\* reset_pen_width that selects data and deletes nothing
reset_pen_width_pen_keep(P, data) == SelectObject(P, data)

\* reset_pen_width that deletes the pen it is given
reset_pen_width_pen_given(P, data) == DeleteObject(SelectObject(P, data), data)

\* reset_pen_width(data): DeleteObject(SelectObject(gc_, (HPEN)data))
reset_pen_width_pen(P, data) ==
  LET selected == SelectObject(P, data)
  IN DeleteObject(selected, selected.ret)

\* the display surface: logical and device coordinates are the same
Display == [print |-> FALSE, k |-> 1, t |-> 0]

\* the threads that call the locks
Threads == 1..NThreads

\* no conversion has been asked for
InitUtf ==
  /\ utf_src = <<>>
  /\ utf_dstlen = 0
  /\ utf_ret = 0
  /\ utf_dst = <<>>

\* a critical section that was never initialised and that no thread owns
NewSection == [inits |-> 0, owner |-> 0]

\* the statics of the lock support at program start, every thread outside
InitLocks ==
  /\ pc = [t \in Threads |-> "out"]
  /\ main_thread = 0
  /\ cs = NewSection
  /\ cs_ring = 0
  /\ ring = <<>>
  /\ first_locked = 0

\* the pen a new context comes with: solid, width 0, in the current colour
InitPen ==
  /\ color_ = "FL_BLACK"
  /\ pens = (0 :> [style |-> "FL_SOLID", width |-> 0, color |-> "FL_BLACK"])
  /\ gc_pen = 0
  /\ held = <<>>
  /\ next_pen = 1
  /\ nested = TRUE

Init ==
  /\ rstack = [i \in 0..region_stack_max |-> NoRegion]
  /\ rstackptr = 0
  /\ gc_ = FALSE
  /\ gc_clip = NoRegion
  /\ fl_clip_state_number = 0
  /\ call = "new"
  /\ warned = FALSE
  /\ query = NoQuery
  /\ out = NoOut
  /\ drawn = {}
  /\ live_regions = 0
  /\ InitPen
  /\ scale_ = <<1, 1>>
  /\ pts = <<>>
  /\ surface = Display
  /\ InitUtf
  /\ InitLocks

\* Fl_GDI_Graphics_Driver::gc(void *ctxt): a context with no clip selected
gc(ctxt) ==
  /\ gc_' = ctxt
  /\ gc_clip' = NoRegion
  /\ call' = "gc"
  /\ warned' = FALSE /\ query' = NoQuery /\ out' = NoOut /\ drawn' = {}
  /\ UNCHANGED <<rstack, rstackptr, fl_clip_state_number>>
  /\ UNCHANGED <<live_regions, penvars, standing>>
  /\ pts' = <<>>

\* restore_clip(): bump fl_clip_state_number, select the top into the context
restore_clip ==
  /\ fl_clip_state_number < MaxClipState
  /\ fl_clip_state_number' = restore_clip_number(gc_, fl_clip_state_number)
  /\ gc_clip' = restore_clip_gc(gc_, gc_clip, rstack[rstackptr])
  /\ call' = "restore_clip"
  /\ warned' = FALSE /\ query' = NoQuery /\ out' = NoOut /\ drawn' = {}
  /\ UNCHANGED <<rstack, rstackptr, gc_>>
  /\ UNCHANGED <<live_regions, penvars, standing>>
  /\ pts' = <<>>

\* push_clip(x,y,w,h): make the region, store it or warn, fl_restore_clip()
push_clip(x, y, w, h) ==
  /\ fl_clip_state_number < MaxClipState
  /\ LET s == push_clip_stack(rstack, rstackptr, x, y, w, h)
     IN /\ rstack' = s.rstack
        /\ rstackptr' = s.rstackptr
        /\ warned' = s.warned
        /\ fl_clip_state_number' = restore_clip_number(gc_, fl_clip_state_number)
        /\ gc_clip' = restore_clip_gc(gc_, gc_clip, s.rstack[s.rstackptr])
  /\ live_regions' = push_clip_regions(live_regions)
  /\ call' = "push_clip"
  /\ query' = NoQuery /\ out' = NoOut /\ drawn' = {}
  /\ UNCHANGED <<gc_, penvars, standing>>
  /\ pts' = <<>>

\* push_clip(x,y,w,h) when the native region cannot be allocated: no region
\* comes to life, the NULL handle is stored or the warning given,
\* fl_restore_clip()
push_clip_nomem(x, y, w, h) ==
  /\ fl_clip_state_number < MaxClipState
  /\ LET s == push_clip_stack_nomem(rstack, rstackptr, x, y, w, h)
     IN /\ rstack' = s.rstack
        /\ rstackptr' = s.rstackptr
        /\ warned' = s.warned
        /\ fl_clip_state_number' = restore_clip_number(gc_, fl_clip_state_number)
        /\ gc_clip' = restore_clip_gc(gc_, gc_clip, s.rstack[s.rstackptr])
  /\ call' = "push_clip_nomem"
  /\ query' = NoQuery /\ out' = NoOut /\ drawn' = {}
  /\ UNCHANGED <<gc_, live_regions, penvars, standing>>
  /\ pts' = <<>>

\* pop_clip(): destroy the top, step down, restore_clip().  Popping the
\* sentinel is left undefined for the driver: callers never do it.
pop_clip ==
  /\ rstackptr > 0
  /\ fl_clip_state_number < MaxClipState
  /\ LET s == pop_clip_stack(rstack, rstackptr)
     IN /\ rstack' = s.rstack
        /\ rstackptr' = s.rstackptr
        /\ fl_clip_state_number' = restore_clip_number(gc_, fl_clip_state_number)
        /\ gc_clip' = restore_clip_gc(gc_, gc_clip, s.rstack[s.rstackptr])
  /\ live_regions' = pop_clip_regions(rstack[rstackptr], live_regions)
  /\ call' = "pop_clip"
  /\ warned' = FALSE /\ query' = NoQuery /\ out' = NoOut /\ drawn' = {}
  /\ UNCHANGED <<gc_, penvars, standing>>
  /\ pts' = <<>>

\* rectf(x,y,w,h) at scale 1
rectf(x, y, w, h) ==
  /\ drawn' = rectf_unscaled(gc_, gc_clip, x, y, w, h)
  /\ call' = "rectf"
  /\ warned' = FALSE /\ query' = NoQuery /\ out' = NoOut
  /\ UNCHANGED <<rstack, rstackptr, gc_, gc_clip, fl_clip_state_number>>
  /\ UNCHANGED <<live_regions, penvars, standing>>
  /\ pts' = <<>>

\* point(x,y): rectf(x, y, 1, 1)
point(x, y) ==
  /\ drawn' = rectf_unscaled(gc_, gc_clip, x, y, 1, 1)
  /\ call' = "point"
  /\ warned' = FALSE /\ query' = NoQuery /\ out' = NoOut
  /\ UNCHANGED <<rstack, rstackptr, gc_, gc_clip, fl_clip_state_number>>
  /\ UNCHANGED <<live_regions, penvars, standing>>
  /\ pts' = <<>>

\* xyline(x,y,x1) at scale 1
xyline(x, y, x1) ==
  /\ drawn' = xyline_unscaled(gc_, gc_clip, x, y, x1)
  /\ call' = "xyline"
  /\ warned' = FALSE /\ query' = NoQuery /\ out' = NoOut
  /\ UNCHANGED <<rstack, rstackptr, gc_, gc_clip, fl_clip_state_number>>
  /\ UNCHANGED <<live_regions, penvars, standing>>
  /\ pts' = <<(<<x, y>>), (<<x1, y>>)>>

\* yxline(x,y,y1) at scale 1
yxline(x, y, y1) ==
  /\ drawn' = yxline_unscaled(gc_, gc_clip, x, y, y1)
  /\ call' = "yxline"
  /\ warned' = FALSE /\ query' = NoQuery /\ out' = NoOut
  /\ UNCHANGED <<rstack, rstackptr, gc_, gc_clip, fl_clip_state_number>>
  /\ UNCHANGED <<live_regions, penvars, standing>>
  /\ pts' = <<(<<x, y>>), (<<x, y1>>)>>

\* change_pen_width(width), the caller keeping the handle it returns
change_pen_width(width) ==
  /\ next_pen <= MaxPens
  /\ LET P == change_pen_width_pen(PenState(pens, gc_pen, next_pen), width, color_)
     IN /\ pens' = P.pens
        /\ gc_pen' = P.gc_pen
        /\ next_pen' = P.next_pen
        /\ held' = Append(held, P.ret)
  /\ call' = "change_pen_width"
  /\ warned' = FALSE /\ query' = NoQuery /\ out' = NoOut /\ drawn' = {}
  /\ UNCHANGED <<rstack, rstackptr, gc_, gc_clip, fl_clip_state_number>>
  /\ UNCHANGED <<live_regions, nested, color_, standing>>
  /\ pts' = <<>>

\* reset_pen_width(data), data being the i-th handle the caller holds
reset_pen_width(i) ==
  /\ i \in 1..Len(held)
  /\ LET P == reset_pen_width_pen(PenState(pens, gc_pen, next_pen), held[i])
     IN /\ pens' = P.pens
        /\ gc_pen' = P.gc_pen
  /\ held' = [k \in 1..(Len(held) - 1) |-> IF k < i THEN held[k] ELSE held[k + 1]]
  /\ nested' = (nested /\ i = Len(held))
  /\ call' = "reset_pen_width"
  /\ warned' = FALSE /\ query' = NoQuery /\ out' = NoOut /\ drawn' = {}
  /\ UNCHANGED <<rstack, rstackptr, gc_, gc_clip, fl_clip_state_number>>
  /\ UNCHANGED <<live_regions, next_pen, color_, standing>>
  /\ pts' = <<>>

\* overlay_rect(x,y,w,h)
overlay_rect(x, y, w, h) ==
  /\ pens' = [pens EXCEPT ![gc_pen] =
               line_style_unscaled(pens[gc_pen],
                 IF color_ = "FL_WHITE" THEN "FL_SOLID" ELSE "FL_DOT", 1)]
  /\ drawn' = overlay_rect_pixels(gc_, gc_clip, x, y, w, h, scale_)
  /\ query' = [x |-> x, y |-> y, w |-> w, h |-> h]
  /\ call' = "overlay_rect"
  /\ warned' = FALSE /\ out' = NoOut
  /\ UNCHANGED <<rstack, rstackptr, gc_, gc_clip, fl_clip_state_number>>
  /\ UNCHANGED <<live_regions, gc_pen, held, next_pen, nested, color_, standing>>
  /\ pts' = <<>>

\* focus_rect(x,y,w,h)
focus_rect(x, y, w, h) ==
  /\ drawn' = focus_rect_pixels(gc_, gc_clip, x, y, w, h, scale_)
  /\ query' = [x |-> x, y |-> y, w |-> w, h |-> h]
  /\ call' = "focus_rect"
  /\ warned' = FALSE /\ out' = NoOut
  /\ UNCHANGED <<rstack, rstackptr, gc_, gc_clip, fl_clip_state_number>>
  /\ UNCHANGED <<live_regions, penvars, standing>>
  /\ pts' = <<>>

\* a call of a line, loop or polygon primitive at scale 1 that changed the
\* pixels px, given the vertices p
vertex_call(name, p, px) ==
  /\ drawn' = px
  /\ pts' = p
  /\ call' = name
  /\ warned' = FALSE /\ query' = NoQuery /\ out' = NoOut
  /\ UNCHANGED <<rstack, rstackptr, gc_, gc_clip, fl_clip_state_number>>
  /\ UNCHANGED <<live_regions, penvars, standing>>

\* line(x,y,x1,y1)
line(x, y, x1, y1) ==
  vertex_call("line", <<(<<x, y>>), (<<x1, y1>>)>>,
              line_unscaled(gc_, gc_clip, x, y, x1, y1))

\* line(x,y,x1,y1,x2,y2)
line3(x, y, x1, y1, x2, y2) ==
  vertex_call("line", <<(<<x, y>>), (<<x1, y1>>), (<<x2, y2>>)>>,
              line_unscaled3(gc_, gc_clip, x, y, x1, y1, x2, y2))

\* loop(x,y,x1,y1,x2,y2)
loop(x, y, x1, y1, x2, y2) ==
  vertex_call("loop", <<(<<x, y>>), (<<x1, y1>>), (<<x2, y2>>)>>,
              loop_unscaled(gc_, gc_clip, x, y, x1, y1, x2, y2))

\* loop(x,y,x1,y1,x2,y2,x3,y3)
loop4(x, y, x1, y1, x2, y2, x3, y3) ==
  vertex_call("loop", <<(<<x, y>>), (<<x1, y1>>), (<<x2, y2>>), (<<x3, y3>>)>>,
              loop_unscaled4(gc_, gc_clip, x, y, x1, y1, x2, y2, x3, y3))

\* polygon(x,y,x1,y1,x2,y2)
polygon(x, y, x1, y1, x2, y2) ==
  vertex_call("polygon", <<(<<x, y>>), (<<x1, y1>>), (<<x2, y2>>)>>,
              polygon_unscaled(gc_, gc_clip, x, y, x1, y1, x2, y2))

\* polygon(x,y,x1,y1,x2,y2,x3,y3)
polygon4(x, y, x1, y1, x2, y2, x3, y3) ==
  vertex_call("polygon", <<(<<x, y>>), (<<x1, y1>>), (<<x2, y2>>), (<<x3, y3>>)>>,
              polygon_unscaled4(gc_, gc_clip, x, y, x1, y1, x2, y2, x3, y3))

\* clip_box() called by a widget: a query, the driver is left as it is
clip_box_call(x, y, w, h) ==
  /\ query' = [x |-> x, y |-> y, w |-> w, h |-> h]
  /\ out' = clip_box(rstack[rstackptr], x, y, w, h)
  /\ live_regions' = clip_box_regions(rstack[rstackptr], x, y, w, h, live_regions)
  /\ call' = "clip_box"
  /\ warned' = FALSE /\ drawn' = {}
  /\ UNCHANGED <<rstack, rstackptr, gc_, gc_clip, fl_clip_state_number>>
  /\ UNCHANGED <<penvars, standing>>
  /\ pts' = <<>>

\* not_clipped() called by a widget
not_clipped_call(x, y, w, h) ==
  /\ query' = [x |-> x, y |-> y, w |-> w, h |-> h]
  /\ out' = [NoOut EXCEPT !.ret = not_clipped(rstack[rstackptr], x, y, w, h)]
  /\ call' = "not_clipped"
  /\ warned' = FALSE /\ drawn' = {}
  /\ UNCHANGED <<rstack, rstackptr, gc_, gc_clip, fl_clip_state_number>>
  /\ UNCHANGED <<live_regions, penvars, standing>>
  /\ pts' = <<>>

\* clip_box() called while a print surface is current
clip_box_print_call(x, y, w, h) ==
  /\ surface.print
  /\ query' = [x |-> x, y |-> y, w |-> w, h |-> h]
  /\ out' = clip_box_print(surface, rstack[rstackptr], x, y, w, h)
  /\ live_regions' = clip_box_regions(rstack[rstackptr], x, y, w, h, live_regions)
  /\ call' = "clip_box"
  /\ warned' = FALSE /\ drawn' = {}
  /\ UNCHANGED <<rstack, rstackptr, gc_, gc_clip, fl_clip_state_number>>
  /\ UNCHANGED <<penvars, standing>>
  /\ pts' = <<>>

\* not_clipped() called while a print surface is current
not_clipped_print_call(x, y, w, h) ==
  /\ surface.print
  /\ query' = [x |-> x, y |-> y, w |-> w, h |-> h]
  /\ out' = [NoOut EXCEPT !.ret = not_clipped_print(surface, rstack[rstackptr], x, y, w, h)]
  /\ call' = "not_clipped"
  /\ warned' = FALSE /\ drawn' = {}
  /\ UNCHANGED <<rstack, rstackptr, gc_, gc_clip, fl_clip_state_number>>
  /\ UNCHANGED <<live_regions, penvars, standing>>
  /\ pts' = <<>>

\* ------------------------------------------------------ the conversion
\* the UTF-16 units of the inputs: U+0041, U+00E9, U+20AC, a high and a low
\* surrogate
Units == {65, 233, 8364, 55296, 56320}

\* a byte of dst that no statement has assigned
Unwritten == 0 - 1

\* ucs >= 0xd800 && ucs <= 0xdbff
IsHigh(ucs) == ucs >= 55296 /\ ucs <= 56319

\* src[i] >= 0xdc00 && src[i] <= 0xdfff
IsLow(ucs) == ucs >= 56320 /\ ucs <= 57343

\* "we filled dst, measure the rest": while (i < srclen) from (i, count); the
\* C index k of src is src[k + 1] here
RECURSIVE utf8fromwc_measure(_, _, _)
utf8fromwc_measure(src, i, count) ==
  IF i >= Len(src) THEN count
  ELSE LET ucs == src[i + 1]
           j == i + 1
       IN IF ucs < 128 THEN utf8fromwc_measure(src, j, count + 1)
          ELSE IF ucs < 2048 THEN utf8fromwc_measure(src, j, count + 2)
          ELSE IF IsHigh(ucs) /\ j < Len(src) - 1 /\ IsLow(src[j + 2])
          THEN utf8fromwc_measure(src, j + 1, count + 4)
          ELSE utf8fromwc_measure(src, j, count + 3)

\* the for (;;) loop from (i, count) with dst as written so far: where it
\* returns or breaks
RECURSIVE utf8fromwc_convert(_, _, _, _, _)
utf8fromwc_convert(src, dstlen, i, count, dst) ==
  IF i >= Len(src)
  THEN [returned |-> TRUE, i |-> i, count |-> count, dst |-> [dst EXCEPT ![count] = 0]]
  ELSE LET ucs == src[i + 1]
           j == i + 1
       IN IF ucs < 128
          THEN IF count + 1 >= dstlen
               THEN [returned |-> FALSE, i |-> j, count |-> count + 1,
                     dst |-> [dst EXCEPT ![count] = 0]]
               ELSE utf8fromwc_convert(src, dstlen, j, count + 1,
                                       [dst EXCEPT ![count] = ucs])
          ELSE IF ucs < 2048
          THEN IF count + 2 >= dstlen
               THEN [returned |-> FALSE, i |-> j, count |-> count + 2,
                     dst |-> [dst EXCEPT ![count] = 0]]
               ELSE utf8fromwc_convert(src, dstlen, j, count + 2,
                      [dst EXCEPT ![count] = 192 + (ucs \div 64),
                                  ![count + 1] = 128 + (ucs % 64)])
          ELSE IF IsHigh(ucs) /\ j < Len(src) /\ IsLow(src[j + 1])
          THEN LET ucs2 == src[j + 1]
                   u == 65536 + ((ucs % 1024) * 1024) + (ucs2 % 1024)
               IN IF count + 4 >= dstlen
                  THEN [returned |-> FALSE, i |-> j + 1, count |-> count + 4,
                        dst |-> [dst EXCEPT ![count] = 0]]
                  ELSE utf8fromwc_convert(src, dstlen, j + 1, count + 4,
                         [dst EXCEPT ![count] = 240 + (u \div 262144),
                                     ![count + 1] = 128 + ((u \div 4096) % 64),
                                     ![count + 2] = 128 + ((u \div 64) % 64),
                                     ![count + 3] = 128 + (u % 64)])
          ELSE IF count + 3 >= dstlen
               THEN [returned |-> FALSE, i |-> j, count |-> count + 3,
                     dst |-> [dst EXCEPT ![count] = 0]]
               ELSE utf8fromwc_convert(src, dstlen, j, count + 3,
                      [dst EXCEPT ![count] = 224 + (ucs \div 4096),
                                  ![count + 1] = 128 + ((ucs \div 64) % 64),
                                  ![count + 2] = 128 + (ucs % 64)])

\* utf8fromwc(dst, dstlen, src, srclen): the value returned, the bytes of dst
\* after the call, and whether the conversion loop was left by its break
utf8fromwc(dstlen, src) ==
  LET fresh == [k \in 0..(dstlen - 1) |-> Unwritten]
  IN IF dstlen = 0
     THEN [ret |-> utf8fromwc_measure(src, 0, 0), dst |-> fresh, filled |-> FALSE]
     ELSE LET c == utf8fromwc_convert(src, dstlen, 0, 0, fresh)
          IN IF c.returned
             THEN [ret |-> c.count, dst |-> c.dst, filled |-> FALSE]
             ELSE [ret |-> utf8fromwc_measure(src, c.i, c.count), dst |-> c.dst,
                   filled |-> TRUE]

\* utf8fromwc() called on the input drawn
utf8fromwc_call ==
  /\ call = "new"
  /\ LET r == utf8fromwc(utf_dstlen, utf_src)
     IN /\ utf_ret' = r.ret
        /\ utf_dst' = r.dst
  /\ call' = "utf8fromwc"
  /\ UNCHANGED <<utf_src, utf_dstlen>>
  /\ UNCHANGED <<rstack, rstackptr, gc_, gc_clip, fl_clip_state_number>>
  /\ UNCHANGED <<warned, query, out, drawn, live_regions, penvars, pts>>
  /\ UNCHANGED <<scale_, surface, lockvars>>

\* ----------------------------------------------------------- the locks
\* what no call of the lock support changes
unlocked == <<rstack, rstackptr, gc_, gc_clip, fl_clip_state_number, call, warned,
              query, out, drawn, live_regions, penvars, pts, scale_, surface, utfvars>>

\* InitializeCriticalSection(s): s is set up afresh and counted.  Doing it to
\* a section a thread is inside is undefined: that thread may stay the owner
\* or the section may come out free.
InitializeCriticalSection(s) ==
  {[inits |-> s.inits + 1, owner |-> o] : o \in {0, s.owner}}

\* EnterCriticalSection(s) by thread t returns once no other thread owns s
CanEnter(s, t) == s.owner = 0

\* LeaveCriticalSection(s) by thread t.  Leaving a section the thread does
\* not own is undefined: the section may be freed or left as it is.
LeaveCriticalSection(s, t) ==
  IF s.owner = t THEN {[s EXCEPT !.owner = 0]}
  ELSE {s, [s EXCEPT !.owner = 0]}

\* lock(): if (!main_thread), the first test
lock_test(t) ==
  /\ pc[t] = "out"
  /\ pc' = [pc EXCEPT ![t] = IF main_thread = 0 THEN "lock_init" ELSE "lock_function"]
  /\ UNCHANGED <<main_thread, cs, cs_ring, ring, first_locked, unlocked>>

\* lock(): InitializeCriticalSection(&cs)
lock_init(t) ==
  /\ pc[t] = "lock_init"
  /\ cs' \in InitializeCriticalSection(cs)
  /\ pc' = [pc EXCEPT ![t] = "lock_function"]
  /\ UNCHANGED <<main_thread, cs_ring, ring, first_locked, unlocked>>

\* lock_function(): EnterCriticalSection(&cs)
lock_function(t) ==
  /\ pc[t] = "lock_function"
  /\ CanEnter(cs, t)
  /\ cs' = [cs EXCEPT !.owner = t]
  /\ pc' = [pc EXCEPT ![t] = "lock_test2"]
  /\ UNCHANGED <<main_thread, cs_ring, ring, first_locked, unlocked>>

\* lock(): if (!main_thread), the second test; return 0 when it is set
lock_test2(t) ==
  /\ pc[t] = "lock_test2"
  /\ pc' = [pc EXCEPT ![t] = IF main_thread = 0 THEN "lock_set" ELSE "locked"]
  /\ first_locked' = IF main_thread # 0 /\ first_locked = 0 THEN t ELSE first_locked
  /\ UNCHANGED <<main_thread, cs, cs_ring, ring, unlocked>>

\* lock(): main_thread = GetCurrentThreadId(); return 0
lock_set(t) ==
  /\ pc[t] = "lock_set"
  /\ main_thread' = t
  /\ pc' = [pc EXCEPT ![t] = "locked"]
  /\ first_locked' = IF first_locked = 0 THEN t ELSE first_locked
  /\ UNCHANGED <<cs, cs_ring, ring, unlocked>>

\* unlock(): unlock_function(), LeaveCriticalSection(&cs)
unlock(t) ==
  /\ pc[t] = "locked"
  /\ cs' \in LeaveCriticalSection(cs, t)
  /\ pc' = [pc EXCEPT ![t] = "out"]
  /\ UNCHANGED <<main_thread, cs_ring, ring, first_locked, unlocked>>

\* the critical sections thread t may take cs_ring to point to: the pointer
\* is an unsynchronised global, so a read gives what is stored now or what
\* the thread stored itself
ReadRing(t) == {cs_ring} \cup {p \in 1..Len(ring) : ring[p].by = t}

\* lock_ring(): if (!cs_ring)
lock_ring_test(t) ==
  /\ pc[t] = "out"
  /\ pc' = [pc EXCEPT ![t] = IF cs_ring = 0 THEN "ring_malloc" ELSE "ring_enter"]
  /\ UNCHANGED <<main_thread, cs, cs_ring, ring, first_locked, unlocked>>

\* lock_ring(): cs_ring = (CRITICAL_SECTION*)malloc(sizeof(CRITICAL_SECTION))
lock_ring_malloc(t) ==
  /\ pc[t] = "ring_malloc"
  /\ ring' = Append(ring, [inits |-> 0, owner |-> 0, by |-> t])
  /\ cs_ring' = Len(ring) + 1
  /\ pc' = [pc EXCEPT ![t] = "ring_init"]
  /\ UNCHANGED <<main_thread, cs, first_locked, unlocked>>

\* lock_ring(): InitializeCriticalSection(cs_ring)
lock_ring_init(t) ==
  /\ pc[t] = "ring_init"
  /\ \E p \in ReadRing(t) :
       \E s \in InitializeCriticalSection(ring[p]) :
         ring' = [ring EXCEPT ![p] = [inits |-> s.inits, owner |-> s.owner, by |-> ring[p].by]]
  /\ pc' = [pc EXCEPT ![t] = "ring_enter"]
  /\ UNCHANGED <<main_thread, cs, cs_ring, first_locked, unlocked>>

\* lock_ring(): EnterCriticalSection(cs_ring)
lock_ring_enter(t) ==
  /\ pc[t] = "ring_enter"
  /\ \E p \in ReadRing(t) :
       /\ CanEnter(ring[p], t)
       /\ ring' = [ring EXCEPT ![p].owner = t]
  /\ pc' = [pc EXCEPT ![t] = "ring_locked"]
  /\ UNCHANGED <<main_thread, cs, cs_ring, first_locked, unlocked>>

\* unlock_ring(): LeaveCriticalSection(cs_ring)
unlock_ring(t) ==
  /\ pc[t] = "ring_locked"
  /\ \E s \in LeaveCriticalSection(ring[cs_ring], t) :
       ring' = [ring EXCEPT ![cs_ring] = s]
  /\ pc' = [pc EXCEPT ![t] = "out"]
  /\ UNCHANGED <<main_thread, cs, cs_ring, first_locked, unlocked>>

\* ------------------------------------------------------- specifications
\* the clip stack: contexts, pushes, pops and restores
Next ==
  \/ \E ctxt \in BOOLEAN : gc(ctxt)
  \/ restore_clip
  \/ \E x \in Coords, y \in Coords, w \in Sizes, h \in Sizes : push_clip(x, y, w, h)
  \/ pop_clip

Spec == Init /\ [][Next]_vars

\* the clip stack when native region allocation may fail in push_clip
NextAlloc ==
  \/ \E ctxt \in BOOLEAN : gc(ctxt)
  \/ \E x \in Coords, y \in Coords, w \in Sizes, h \in Sizes : push_clip(x, y, w, h)
  \/ \E x \in Coords, y \in Coords, w \in Sizes, h \in Sizes : push_clip_nomem(x, y, w, h)
  \/ pop_clip

SpecAlloc == Init /\ [][NextAlloc]_vars

\* the clip stack under pushes and pops alone
NextPush ==
  \/ \E x \in Coords, y \in Coords, w \in Sizes, h \in Sizes : push_clip(x, y, w, h)
  \/ pop_clip

SpecPush == Init /\ [][NextPush]_vars

\* the clip stack and the primitives that draw through the selected clip
NextDraw ==
  \/ \E ctxt \in BOOLEAN : gc(ctxt)
  \/ restore_clip
  \/ \E x \in Coords, y \in Coords, w \in Sizes, h \in Sizes : push_clip(x, y, w, h)
  \/ pop_clip
  \/ \E x \in Coords, y \in Coords, w \in Sizes, h \in Sizes : rectf(x, y, w, h)
  \/ \E x \in Coords, y \in Coords : point(x, y)
  \/ \E x \in Coords, y \in Coords, x1 \in Coords : xyline(x, y, x1)
  \/ \E x \in Coords, y \in Coords, y1 \in Coords : yxline(x, y, y1)

SpecDraw == Init /\ [][NextDraw]_vars

\* the queries, asked of a stack whose top is the sentinel, a rectangle or a
\* composite region (the union of two rectangles, as fl_clip_region() installs)
RectRegions ==
  {XRectangleRegion(x, y, w, h) : x \in Coords, y \in Coords, w \in Sizes, h \in Sizes}

CompositeRegions ==
  {[null |-> FALSE, px |-> a.px \cup b.px] : a \in RectRegions, b \in RectRegions}

InitQuery ==
  /\ rstackptr \in {0, 1}
  /\ \E r \in CompositeRegions :
       rstack = [i \in 0..region_stack_max |->
                   IF i = 1 /\ rstackptr = 1 THEN r ELSE NoRegion]
  /\ gc_ = FALSE
  /\ gc_clip = NoRegion
  /\ fl_clip_state_number = 0
  /\ call = "new"
  /\ warned = FALSE
  /\ query = NoQuery
  /\ out = NoOut
  /\ drawn = {}
  /\ live_regions = rstackptr
  /\ InitPen
  /\ scale_ = <<1, 1>>
  /\ pts = <<>>
  /\ surface = Display
  /\ InitUtf
  /\ InitLocks

\* one query is asked of each such stack
NextQuery ==
  \/ \E x \in Coords, y \in Coords, w \in Sizes, h \in Sizes :
       call = "new" /\ clip_box_call(x, y, w, h)
  \/ \E x \in Coords, y \in Coords, w \in Sizes, h \in Sizes :
       call = "new" /\ not_clipped_call(x, y, w, h)

SpecQuery == InitQuery /\ [][NextQuery]_vars

\* the print surfaces: every mapping but the identity
PrintSurfaces ==
  {[print |-> TRUE, k |-> k, t |-> t] : k \in 1..MaxMapScale, t \in 0..MaxMapShift}
    \ {[print |-> TRUE, k |-> 1, t |-> 0]}

\* the regions pushes leave on a print surface sf, and the unions of two
PrintRegions(sf) ==
  LET rects == {XRectangleRegion_print(sf, x, y, w, h) :
                  x \in Coords, y \in Coords, w \in Sizes, h \in Sizes}
  IN {[null |-> FALSE, px |-> a.px \cup b.px] : a \in rects, b \in rects}

\* the queries on a print surface, asked of a stack whose top is the sentinel,
\* a rectangle or a composite region in device units
InitPrint ==
  /\ surface \in PrintSurfaces
  /\ rstackptr \in {0, 1}
  /\ \E r \in PrintRegions(surface) :
       rstack = [i \in 0..region_stack_max |->
                   IF i = 1 /\ rstackptr = 1 THEN r ELSE NoRegion]
  /\ gc_ = TRUE
  /\ gc_clip = rstack[rstackptr]
  /\ fl_clip_state_number = 0
  /\ call = "new"
  /\ warned = FALSE
  /\ query = NoQuery
  /\ out = NoOut
  /\ drawn = {}
  /\ live_regions = rstackptr
  /\ InitPen
  /\ scale_ = <<1, 1>>
  /\ pts = <<>>
  /\ InitUtf
  /\ InitLocks

\* one query is asked of each such stack
NextPrint ==
  \/ \E x \in Coords, y \in Coords, w \in Sizes, h \in Sizes :
       call = "new" /\ clip_box_print_call(x, y, w, h)
  \/ \E x \in Coords, y \in Coords, w \in Sizes, h \in Sizes :
       call = "new" /\ not_clipped_print_call(x, y, w, h)

SpecPrint == InitPrint /\ [][NextPrint]_vars

\* the inputs of the conversion: every string of at most MaxSrcLen units
Inputs == UNION {[1..n -> Units] : n \in 0..MaxSrcLen}

\* the conversion, asked once of every input and every buffer length
InitConvert ==
  /\ utf_src \in Inputs
  /\ utf_dstlen \in 0..MaxDstLen
  /\ utf_ret = 0
  /\ utf_dst = <<>>
  /\ rstack = [i \in 0..region_stack_max |-> NoRegion]
  /\ rstackptr = 0
  /\ gc_ = FALSE
  /\ gc_clip = NoRegion
  /\ fl_clip_state_number = 0
  /\ call = "new"
  /\ warned = FALSE
  /\ query = NoQuery
  /\ out = NoOut
  /\ drawn = {}
  /\ live_regions = 0
  /\ InitPen
  /\ scale_ = <<1, 1>>
  /\ pts = <<>>
  /\ surface = Display
  /\ InitLocks

NextConvert == utf8fromwc_call

SpecConvert == InitConvert /\ [][NextConvert]_vars

\* threads that call lock() and unlock() in turn, in any interleaving
NextLock ==
  \/ \E t \in Threads : lock_test(t)
  \/ \E t \in Threads : lock_init(t)
  \/ \E t \in Threads : lock_function(t)
  \/ \E t \in Threads : lock_test2(t)
  \/ \E t \in Threads : lock_set(t)
  \/ \E t \in Threads : unlock(t)

SpecLock == Init /\ [][NextLock]_vars

\* threads that call lock_ring() and unlock_ring() in turn, in any interleaving
NextRing ==
  \/ \E t \in Threads : lock_ring_test(t)
  \/ \E t \in Threads : lock_ring_malloc(t)
  \/ \E t \in Threads : lock_ring_init(t)
  \/ \E t \in Threads : lock_ring_enter(t)
  \/ \E t \in Threads : unlock_ring(t)

SpecRing == Init /\ [][NextRing]_vars

\* the pens: a context with any pen selected and any current colour, widened
\* and reset by callers that give back every handle once, in any order
InitPens ==
  /\ rstack = [i \in 0..region_stack_max |-> NoRegion]
  /\ rstackptr = 0
  /\ gc_ = TRUE
  /\ gc_clip = NoRegion
  /\ fl_clip_state_number = 0
  /\ call = "new"
  /\ warned = FALSE
  /\ query = NoQuery
  /\ out = NoOut
  /\ drawn = {}
  /\ live_regions = 0
  /\ color_ \in Colors
  /\ \E st \in Styles, wd \in Widths, c \in Colors :
       pens = (0 :> [style |-> st, width |-> wd, color |-> c])
  /\ gc_pen = 0
  /\ held = <<>>
  /\ next_pen = 1
  /\ nested = TRUE
  /\ scale_ = <<1, 1>>
  /\ pts = <<>>
  /\ surface = Display
  /\ InitUtf
  /\ InitLocks

NextPens ==
  \/ \E width \in Widths : change_pen_width(width)
  \/ \E i \in 1..MaxPens : reset_pen_width(i)

SpecPens == InitPens /\ [][NextPens]_vars

\* the outlines: a context with no clip, at any scale, with any pen and colour
InitRect ==
  /\ rstack = [i \in 0..region_stack_max |-> NoRegion]
  /\ rstackptr = 0
  /\ gc_ = TRUE
  /\ gc_clip = NoRegion
  /\ fl_clip_state_number = 0
  /\ call = "new"
  /\ warned = FALSE
  /\ query = NoQuery
  /\ out = NoOut
  /\ drawn = {}
  /\ live_regions = 0
  /\ color_ \in Colors
  /\ \E st \in Styles, wd \in Widths :
       pens = (0 :> [style |-> st, width |-> wd, color |-> color_])
  /\ gc_pen = 0
  /\ held = <<>>
  /\ next_pen = 1
  /\ nested = TRUE
  /\ scale_ \in Scales
  /\ pts = <<>>
  /\ surface = Display
  /\ InitUtf
  /\ InitLocks

\* one outline is drawn in each such context
NextRect ==
  \/ \E x \in Coords, y \in Coords, w \in Sizes, h \in Sizes :
       call = "new" /\ overlay_rect(x, y, w, h)
  \/ \E x \in Coords, y \in Coords, w \in Sizes, h \in Sizes :
       call = "new" /\ focus_rect(x, y, w, h)

SpecRect == InitRect /\ [][NextRect]_vars

\* the lines, loops and polygons: a context with no clip at scale 1
InitLines ==
  /\ rstack = [i \in 0..region_stack_max |-> NoRegion]
  /\ rstackptr = 0
  /\ gc_ = TRUE
  /\ gc_clip = NoRegion
  /\ fl_clip_state_number = 0
  /\ call = "new"
  /\ warned = FALSE
  /\ query = NoQuery
  /\ out = NoOut
  /\ drawn = {}
  /\ live_regions = 0
  /\ InitPen
  /\ scale_ = <<1, 1>>
  /\ pts = <<>>
  /\ surface = Display
  /\ InitUtf
  /\ InitLocks

\* one line, loop or polygon is drawn
NextLines ==
  \/ \E x \in Coords, y \in Coords, x1 \in Coords, y1 \in Coords :
       call = "new" /\ line(x, y, x1, y1)
  \/ \E x \in Coords, y \in Coords, x1 \in Coords, y1 \in Coords,
        x2 \in Coords, y2 \in Coords :
       call = "new" /\ line3(x, y, x1, y1, x2, y2)
  \/ \E x \in Coords, y \in Coords, x1 \in Coords, y1 \in Coords,
        x2 \in Coords, y2 \in Coords :
       call = "new" /\ loop(x, y, x1, y1, x2, y2)
  \/ \E x \in Coords, y \in Coords, x1 \in Coords, y1 \in Coords,
        x2 \in Coords, y2 \in Coords, x3 \in Coords, y3 \in Coords :
       call = "new" /\ loop4(x, y, x1, y1, x2, y2, x3, y3)
  \/ \E x \in Coords, y \in Coords, x1 \in Coords, y1 \in Coords,
        x2 \in Coords, y2 \in Coords :
       call = "new" /\ polygon(x, y, x1, y1, x2, y2)
  \/ \E x \in Coords, y \in Coords, x1 \in Coords, y1 \in Coords,
        x2 \in Coords, y2 \in Coords, x3 \in Coords, y3 \in Coords :
       call = "new" /\ polygon4(x, y, x1, y1, x2, y2, x3, y3)

SpecLines == InitLines /\ [][NextLines]_vars

\* ------------------------------------------------------------ properties
\* the device pixels any rectangle or region of the model can cover
Grid == {<<i, j>> : i \in MinCoord..(MaxCoord + MaxSize), j \in MinCoord..(MaxCoord + MaxSize)}

\* pixel p lies in the rectangle (x,y,w,h)
InRect(p, x, y, w, h) == x <= p[1] /\ p[1] < x + w /\ y <= p[2] /\ p[2] < y + h

\* pixel p may be drawn under the stack entry r (the sentinel clips nothing)
Visible(r, p) == r.null \/ p \in r.px

top == rstack[rstackptr]

\* C1: below the maximum depth, push_clip(x,y,w,h) with w>0 and h>0 raises the
\* depth by one, its new top holds exactly the pixels of the rectangle that the
\* previous top lets through (all of them when that top is the sentinel), and
\* the entries below the new top are the old ones.
C1_PushIntersects ==
  rstackptr < region_stack_max =>
    \A x \in Coords, y \in Coords, w \in 1..MaxSize, h \in 1..MaxSize :
      LET s == push_clip_stack(rstack, rstackptr, x, y, w, h)
          t == s.rstack[s.rstackptr]
      IN /\ s.rstackptr = rstackptr + 1
         /\ ~t.null
         /\ t.px \subseteq Grid
         /\ \A p \in Grid : p \in t.px <=> (InRect(p, x, y, w, h) /\ Visible(top, p))
         /\ \A i \in 0..rstackptr : s.rstack[i] = rstack[i]

\* C1 witness: a push has stored, on a non-empty region, a strictly smaller
\* non-empty intersection
C1_Witness ==
  /\ call = "push_clip" /\ ~warned /\ rstackptr = 2
  /\ top.px # {} /\ top.px # rstack[1].px
  /\ top.px \subseteq rstack[1].px

\* entry a shows no pixel that entry b hides
Narrower(a, b) == b.null \/ (~a.null /\ a.px \subseteq b.px)

\* C2: after any pushes and pops, the region at every depth N >= 1 is a subset
\* of the region at depth N-1, the sentinel counting as the whole surface.
C2_Nested == \A N \in 1..rstackptr : Narrower(rstack[N], rstack[N - 1])

\* C2 witness: three nested levels, each strictly inside the one below
C2_Witness ==
  /\ rstackptr = 2
  /\ rstack[1].px # {} /\ rstack[1].px # Grid
  /\ rstack[2].px # rstack[1].px /\ rstack[2].px # {}

\* not_clipped answers every query the same on the entries a and b
SameNotClipped(a, b) ==
  \/ a = b
  \/ \A x \in Coords, y \in Coords, w \in Sizes, h \in Sizes :
       not_clipped(a, x, y, w, h) = not_clipped(b, x, y, w, h)

\* clip_box answers every query the same on the entries a and b
SameClipBox(a, b) ==
  \/ a = b
  \/ \A x \in Coords, y \in Coords, w \in Sizes, h \in Sizes :
       clip_box(a, x, y, w, h) = clip_box(b, x, y, w, h)

\* C3: a push_clip() at the maximum depth calls Fl::warning and changes neither
\* the stack pointer nor any stack entry, so clip_box and not_clipped answer
\* every query as before the call.
C3_OverflowDropped ==
  [][(call' = "push_clip" /\ rstackptr = region_stack_max) =>
       /\ warned'
       /\ rstackptr' = rstackptr
       /\ rstack' = rstack
       /\ SameClipBox(rstack'[rstackptr'], top)
       /\ SameNotClipped(rstack'[rstackptr'], top)]_vars

\* C3 witness: a push was dropped on a full stack whose top is a real region
C3_Witness ==
  /\ call = "push_clip" /\ warned
  /\ rstackptr = region_stack_max
  /\ top.px # {}

\* the stack (rstack, rstackptr) after push_clip(x,y,w,h); pop_clip()
PushPop(x, y, w, h) ==
  LET s == push_clip_stack(rstack, rstackptr, x, y, w, h)
  IN pop_clip_stack(s.rstack, s.rstackptr)

\* C4 as stated: in every reachable state, push_clip(x,y,w,h) followed at once
\* by pop_clip() leaves clip_box of every query as it was, for every rectangle.
C4_PushPop_AnyDepth ==
  \A x \in Coords, y \in Coords, w \in Sizes, h \in Sizes :
    LET t == PushPop(x, y, w, h)
    IN SameClipBox(t.rstack[t.rstackptr], top)

\* C4 amended: the same, in every reachable state below the maximum depth; the
\* popped stack is then the stack before the push, entry by entry.
C4_PushPop ==
  rstackptr < region_stack_max =>
    \A x \in Coords, y \in Coords, w \in Sizes, h \in Sizes :
      LET t == PushPop(x, y, w, h)
      IN /\ SameClipBox(t.rstack[t.rstackptr], top)
         /\ t.rstackptr = rstackptr
         /\ \A i \in 0..rstackptr : t.rstack[i] = rstack[i]

\* C4 witness: a pop has brought back a real region from under a pushed one
C4_Witness ==
  /\ call = "pop_clip" /\ rstackptr = 1 /\ rstackptr < region_stack_max
  /\ top.px # {}
  /\ \E x \in Coords, y \in Coords, w \in Sizes, h \in Sizes :
       LET s == push_clip_stack(rstack, rstackptr, x, y, w, h)
       IN ~SameClipBox(s.rstack[s.rstackptr], top)

\* rectangle (x2,y2,w2,h2) has no pixel outside rectangle (x1,y1,w1,h1)
Contained(x2, y2, w2, h2, x1, y1, w1, h1) ==
  \/ w2 <= 0 \/ h2 <= 0
  \/ /\ x1 <= x2 /\ x2 + w2 <= x1 + w1
     /\ y1 <= y2 /\ y2 + h2 <= y1 + h1

\* the top of the stack s
TopOf(s) == s.rstack[s.rstackptr]

\* push_clip(R1); push_clip(R2) and push_clip(R2) alone end with tops that
\* clip_box cannot tell apart, for all R2 contained in R1
PushTwiceAsOnce ==
  \A x1 \in Coords, y1 \in Coords, w1 \in Sizes, h1 \in Sizes :
    LET first == push_clip_stack(rstack, rstackptr, x1, y1, w1, h1)
    IN \A x2 \in Coords, y2 \in Coords, w2 \in Sizes, h2 \in Sizes :
         Contained(x2, y2, w2, h2, x1, y1, w1, h1) =>
           SameClipBox(
             TopOf(push_clip_stack(first.rstack, first.rstackptr, x2, y2, w2, h2)),
             TopOf(push_clip_stack(rstack, rstackptr, x2, y2, w2, h2)))

\* C5 as stated: from every reachable state, for all R2 contained in R1, the
\* effective clip after push_clip(R1); push_clip(R2) is the one after
\* push_clip(R2) alone.
C5_Idempotent_AnyDepth == PushTwiceAsOnce

\* C5 amended: the same, from every reachable state in which both pushes are
\* stored (depth at most region_stack_max - 2) or both are dropped (depth
\* region_stack_max).
C5_Idempotent == rstackptr # region_stack_max - 1 => PushTwiceAsOnce

\* C5 witness: two pushes were stored from the empty stack, the second
\* rectangle strictly inside the first
C5_Witness ==
  /\ call = "push_clip" /\ ~warned /\ rstackptr = 2
  /\ rstackptr - 2 # region_stack_max - 1
  /\ rstack[2].px # {} /\ rstack[2].px # rstack[1].px
  /\ \E x \in Coords, y \in Coords, w \in Sizes, h \in Sizes :
       /\ rstack[2] = XRectangleRegion(x, y, w, h)
       /\ rstack[2] = push_clip_stack(rstack, 0, x, y, w, h).rstack[1]

\* the query rectangle and the effective clip share a pixel
QueryShares == \E p \in Grid : InRect(p, query.x, query.y, query.w, query.h) /\ Visible(top, p)

\* every pixel of the query rectangle is in the effective clip
QueryInside == \A p \in Grid : InRect(p, query.x, query.y, query.w, query.h) => Visible(top, p)

\* the status clip_box returned is the one the pixels of the query call for
StatusByPixels ==
  /\ out.ret \in {0, 1, 2}
  /\ out.ret = 2 <=> ~QueryShares
  /\ out.ret = 0 <=> QueryInside
  /\ top.null => out.ret = 0

\* C6 as stated: for every stack and every query rectangle, clip_box returns 2
\* iff query and clip share no pixel, 0 iff every pixel of the query is in the
\* clip (always 0 when nothing is clipped), and 1 otherwise.
C6_Status_AnyQuery == call = "clip_box" => StatusByPixels

\* C6 amended: the same for every query rectangle with w > 0 and h > 0.
C6_Status == (call = "clip_box" /\ query.w > 0 /\ query.h > 0) => StatusByPixels

\* C6 witness: a partial overlap with a composite region whose bounding box
\* covers the whole query rectangle
C6_Witness ==
  /\ call = "clip_box" /\ out.ret = 1
  /\ query.w > 0 /\ query.h > 0
  /\ out.X = query.x /\ out.Y = query.y /\ out.W = query.w /\ out.H = query.h

\* the pixels of the query rectangle that are in the top region
QueryOverlap == {p \in Grid : InRect(p, query.x, query.y, query.w, query.h) /\ p \in top.px}

\* C7: on the display surface clip_box returns the query rectangle when the
\* status is 0, the bounding box of the overlap when it is 1, and W = H = 0
\* when it is 2; the returned rectangle lies inside the query rectangle.
C7_Box ==
  call = "clip_box" =>
    /\ out.ret = 0 =>
         out.X = query.x /\ out.Y = query.y /\ out.W = query.w /\ out.H = query.h
    /\ out.ret = 1 =>
         /\ QueryOverlap # {}
         /\ \A p \in QueryOverlap : InRect(p, out.X, out.Y, out.W, out.H)
         /\ \E p \in QueryOverlap : p[1] = out.X
         /\ \E p \in QueryOverlap : p[1] = out.X + out.W - 1
         /\ \E p \in QueryOverlap : p[2] = out.Y
         /\ \E p \in QueryOverlap : p[2] = out.Y + out.H - 1
    /\ out.ret = 2 => out.W = 0 /\ out.H = 0
    /\ out.X >= query.x /\ out.X + out.W <= query.x + query.w
    /\ out.Y >= query.y /\ out.Y + out.H <= query.y + query.h

\* C7 witness: the clip is the square (-1,-1,2,2), the query (0,0,2,2) overlaps
\* it in one pixel and clip_box answers (0,0,1,1) with status 1
C7_Witness ==
  /\ call = "clip_box"
  /\ top = XRectangleRegion(MinCoord, MinCoord, 2, 2)
  /\ query = [x |-> 0, y |-> 0, w |-> 2, h |-> 2]
  /\ out = [ret |-> 1, X |-> 0, Y |-> 0, W |-> 1, H |-> 1]

\* C8 (on rectangles with w > 0 and h > 0): not_clipped returns 0 exactly when
\* clip_box reports status 2 for the same rectangle, at negative coordinates too.
C8_NotClippedAgrees ==
  (call = "not_clipped" /\ query.w > 0 /\ query.h > 0) =>
    (out.ret = 0 <=> clip_box(top, query.x, query.y, query.w, query.h).ret = 2)

\* a region, not the sentinel, that holds no pixel
EmptyRegion(r) == r = [null |-> FALSE, px |-> {}]

\* clip_box reports status 2 with W = H = 0 for every non-empty query
AllOutside(r) ==
  \A x \in Coords, y \in Coords, w \in 1..MaxSize, h \in 1..MaxSize :
    LET b == clip_box(r, x, y, w, h) IN b.ret = 2 /\ b.W = 0 /\ b.H = 0

\* while an empty region is on the stack, every non-empty query is outside
EmptyStays ==
  (\E k \in 1..rstackptr : EmptyRegion(rstack[k])) => AllOutside(top)

\* push_clip(x,y,w,h) with w <= 0 or h <= 0 leaves an empty region, not the
\* sentinel, on top, without a warning, and every non-empty query outside
DegeneratePush ==
  /\ AllOutside([null |-> FALSE, px |-> {}])
  /\ \A x \in Coords, y \in Coords, w \in Sizes, h \in Sizes :
       (w <= 0 \/ h <= 0) =>
         LET s == push_clip_stack(rstack, rstackptr, x, y, w, h)
         IN ~s.warned /\ EmptyRegion(s.rstack[s.rstackptr])

\* C9 as stated: push_clip with w<=0 or h<=0 pushes an empty region, which is
\* not the sentinel and not an error; until it is popped, whatever is pushed
\* on top of it, clip_box reports status 2 with W = H = 0 for every non-empty
\* query.
C9_EmptyClip_AnyDepth == DegeneratePush /\ EmptyStays

\* C9 amended: the same for a push_clip made below the maximum depth.
C9_EmptyClip == (rstackptr < region_stack_max => DegeneratePush) /\ EmptyStays

\* C9 witness: a push on top of the empty region a degenerate push stored
C9_Witness ==
  /\ call = "push_clip" /\ ~warned /\ rstackptr = 2
  /\ EmptyRegion(rstack[1]) /\ EmptyRegion(top)

\* the calls that draw
DrawCalls == {"point", "rectf", "xyline", "yxline"}

ThePens == PenState(pens, gc_pen, next_pen)

\* C11: for any selected pen and any width, h = change_pen_width(width) followed
\* at once by reset_pen_width(h) ends with the same pen object selected as
\* before, with its style, width and colour, and with the same live pens: the
\* pen created in between, which was selected with the width asked for, is
\* deleted.
C11_PenRestored ==
  \A width \in Widths :
    LET c == change_pen_width_pen(ThePens, width, color_)
        r == reset_pen_width_pen(c, c.ret)
    IN /\ c.ret = gc_pen
       /\ c.gc_pen \notin DOMAIN pens
       /\ c.pens[c.gc_pen].width = width
       /\ r.gc_pen = gc_pen
       /\ r.pens = pens
       /\ c.gc_pen \notin DOMAIN r.pens
       /\ Cardinality(DOMAIN r.pens) = Cardinality(DOMAIN pens)

\* C11 witness: a reset has just undone the one change made to a dotted pen of
\* the largest width, which is selected again and is the only live pen
C11_Witness ==
  /\ call = "reset_pen_width" /\ held = <<>> /\ next_pen = 2
  /\ gc_pen = 0 /\ DOMAIN pens = {0}
  /\ pens[0].style = "FL_DOT" /\ pens[0].width = MaxWidth

\* the pens change_pen_width() created
CreatedPens == 1..(next_pen - 1)

\* the pen selected and the pens still to be restored are live
NoDanglingPen ==
  /\ gc_pen \in DOMAIN pens
  /\ \A i \in 1..Len(held) : held[i] \in DOMAIN pens

\* the pen selected before the first change is selected, and no created pen is live
PensAsBefore ==
  /\ gc_pen = 0 /\ 0 \in DOMAIN pens
  /\ \A p \in CreatedPens : p \notin DOMAIN pens

\* C18 as stated: once every handle has been given back, in whatever order, the
\* first pen is selected again and every created pen is deleted; at no time is
\* the selected pen or a pen still to be restored a deleted one.
C18_AnyOrder == NoDanglingPen /\ (held = <<>> => PensAsBefore)

\* C18 amended: the same when every reset is given the handle returned last
\* among those not yet given back (nested order).
C18_Nested == NoDanglingPen /\ ((held = <<>> /\ nested) => PensAsBefore)

\* C18 witness: three nested changes have all been reset, innermost first
C18_Witness ==
  /\ call = "reset_pen_width" /\ held = <<>> /\ nested
  /\ next_pen = MaxPens + 1 /\ next_pen > 2

\* C12: clip_box changes neither the stack pointer nor a stack entry, and on
\* each of its paths the native regions it creates are deleted before it
\* returns: the number of live native regions is the one before the call.
C12_ClipBoxPure ==
  [][call' = "clip_box" =>
       /\ live_regions' = live_regions
       /\ rstackptr' = rstackptr
       /\ rstack' = rstack]_vars

\* C12 witness: clip_box has answered "disjoint" on a real region, the one
\* live region there is
C12_Witness ==
  /\ call = "clip_box" /\ ~top.null /\ top.px # {}
  /\ out.ret = 2 /\ query.w > 0 /\ query.h > 0
  /\ live_regions = 1

\* the stack after k more push_clip() calls of a one-pixel rectangle
RECURSIVE Pushes(_, _, _)
Pushes(stk, ptr, k) ==
  IF k = 0 THEN [rstack |-> stk, rstackptr |-> ptr]
  ELSE LET s == push_clip_stack(stk, ptr, 0, 0, 1, 1)
       IN Pushes(s.rstack, s.rstackptr, k - 1)

\* each of k pop_clip() calls in a row finds a region above the sentinel
RECURSIVE PopsAboveSentinel(_, _, _)
PopsAboveSentinel(stk, ptr, k) ==
  \/ k = 0
  \/ /\ ptr > 0
     /\ LET s == pop_clip_stack(stk, ptr)
        IN PopsAboveSentinel(s.rstack, s.rstackptr, k - 1)

\* the pointer is a slot of rstack, slot 0 holds the sentinel, and no push_clip
\* moves the pointer past the last slot or writes slot 0
StackInBounds ==
  /\ rstackptr \in 0..region_stack_max
  /\ rstack[0] = NoRegion
  /\ \A x \in Coords, y \in Coords, w \in Sizes, h \in Sizes :
       LET s == push_clip_stack(rstack, rstackptr, x, y, w, h)
       IN /\ s.rstackptr \in 1..region_stack_max
          /\ s.rstack[0] = NoRegion
          /\ DOMAIN s.rstack = 0..region_stack_max

\* C16 as stated: the stack stays in bounds, and k more pushes followed by k
\* pops (the pops never outnumbering the pushes) never pop the sentinel.
C16_InBounds_AnyPushes ==
  /\ StackInBounds
  /\ \A k \in 1..(region_stack_max + 1) :
       LET s == Pushes(rstack, rstackptr, k)
       IN PopsAboveSentinel(s.rstack, s.rstackptr, k)

\* C16 amended: the stack stays in bounds, and k more pushes that are all
\* stored followed by k pops never pop the sentinel.
C16_InBounds ==
  /\ StackInBounds
  /\ \A k \in 1..(region_stack_max - rstackptr) :
       LET s == Pushes(rstack, rstackptr, k)
       IN /\ s.rstackptr = rstackptr + k
          /\ PopsAboveSentinel(s.rstack, s.rstackptr, k)

\* C16 witness: pops have brought the stack back to the sentinel, which is
\* still in slot 0, after two pushes
C16_Witness ==
  /\ call = "pop_clip" /\ rstackptr = 0 /\ rstack[0] = NoRegion
  /\ fl_clip_state_number >= 4 /\ live_regions = 0

\* C17: after any pushes and pops, the live regions push_clip created are the
\* regions on the stack: as many as the stack is deep.
C17_LiveIsDepth == live_regions = rstackptr

\* the positions focus_rect passed on its last call
Visits == focus_rect_visits(query.x, query.y, query.w, query.h, scale_)

\* the corners of the box the positions v enclose
BoxLeft(v) == SetMin({v[i][1] : i \in 1..Len(v)})
BoxTop(v) == SetMin({v[i][2] : i \in 1..Len(v)})
BoxRight(v) == SetMax({v[i][1] : i \in 1..Len(v)})
BoxBottom(v) == SetMax({v[i][2] : i \in 1..Len(v)})

\* the position after p, going clockwise round the box the positions v enclose
ClockwiseNext(v, p) ==
  IF p[2] = BoxTop(v) /\ p[1] < BoxRight(v) THEN <<p[1] + 1, p[2]>>
  ELSE IF p[1] = BoxRight(v) /\ p[2] < BoxBottom(v) THEN <<p[1], p[2] + 1>>
  ELSE IF p[2] = BoxBottom(v) /\ p[1] > BoxLeft(v) THEN <<p[1] - 1, p[2]>>
  ELSE <<p[1], p[2] - 1>>

C14_VerticesDrawn ==
  call \in {"line", "loop"} => \A i \in 1..Len(pts) : pts[i] \in drawn

\* the device span of the logical span that starts at x and is w long, as
\* overlay_rect computes its left and right edge
SpanLow(x, w) == floor(x, scale_)
SpanHigh(x, w) == overlay_rect_right(x, w, scale_)

\* the span from x and the span that starts where it ends share no device pixel
NoOverlap(x, w) == SpanLow(x + w, 1) > SpanHigh(x, w)

\* no device pixel lies between the span from x and the span that follows it
NoGap(x, w) == SpanLow(x + w, 1) <= SpanHigh(x, w) + 1

\* an outline call has drawn a rectangle with w > 0 and h > 0
OutlineDrawn ==
  call \in {"overlay_rect", "focus_rect"} /\ query.w > 0 /\ query.h > 0

\* C15 as stated: at every scale s > 0, for every rectangle drawn, the device
\* span of its columns (x, w) and the device span of the adjacent logical span
\* starting at x+w neither overlap nor leave a device pixel uncovered between
\* them; the same for its rows (y, h).
C15_Adjacent_AnyScale ==
  OutlineDrawn =>
    /\ NoOverlap(query.x, query.w) /\ NoGap(query.x, query.w)
    /\ NoOverlap(query.y, query.h) /\ NoGap(query.y, query.h)

\* C15 amended: at every scale s >= 1 the two spans do not overlap, at every
\* scale s <= 1 they leave no device pixel uncovered between them (both at
\* s = 1), and the span of (x, w) is never empty; the same for (y, h).
C15_Adjacent ==
  OutlineDrawn =>
    /\ scale_[1] >= scale_[2] => NoOverlap(query.x, query.w) /\ NoOverlap(query.y, query.h)
    /\ scale_[1] <= scale_[2] => NoGap(query.x, query.w) /\ NoGap(query.y, query.h)
    /\ SpanLow(query.x, query.w) <= SpanHigh(query.x, query.w)
    /\ SpanLow(query.y, query.h) <= SpanHigh(query.y, query.h)

\* C15 witness: overlay_rect has drawn at a scale above 1 where the adjacent
\* span starts two device pixels after the right edge
C15_Witness ==
  /\ call = "overlay_rect" /\ query.w > 0 /\ query.h > 0
  /\ scale_[1] > scale_[2]
  /\ SpanLow(query.x + query.w, 1) = SpanHigh(query.x, query.w) + 2

\* every drawing primitive of the driver
Primitives ==
  {"point", "rectf", "line", "xyline", "yxline", "loop", "polygon",
   "overlay_rect", "focus_rect"}

\* C19: a call of a drawing primitive leaves the line style and the line width
\* of the driver's pen as they were before the call.
C19_PenKept ==
  [][call' \in Primitives =>
       /\ pens'[gc_pen'].style = pens[gc_pen].style
       /\ pens'[gc_pen'].width = pens[gc_pen].width]_vars

\* the device rectangle of the last outline call: its corners by the floor rule
RuleLeft == floor(query.x, scale_)
RuleTop == floor(query.y, scale_)
RuleRight == floor(query.x + query.w - 1, scale_)
RuleBottom == floor(query.y + query.h - 1, scale_)

\* C20: for a rectangle with w > 0 and h > 0 at any scale, the pixels
\* focus_rect sets and the outline overlay_rect draws lie inside the device
\* rectangle with the corners (floor(x), floor(y)) and (floor(x+w-1),
\* floor(y+h-1)), and that rectangle is the smallest they lie in.
C20_SameRectangle ==
  OutlineDrawn =>
    /\ \A p \in drawn :
         /\ RuleLeft <= p[1] /\ p[1] <= RuleRight
         /\ RuleTop <= p[2] /\ p[2] <= RuleBottom
    /\ drawn # {} =>
         /\ SetMin({p[1] : p \in drawn}) = RuleLeft
         /\ SetMax({p[1] : p \in drawn}) = RuleRight
         /\ SetMin({p[2] : p \in drawn}) = RuleTop
         /\ SetMax({p[2] : p \in drawn}) = RuleBottom

\* C25: fl_clip_state_number never decreases; every restore_clip call and
\* every push_clip call, a push dropped on overflow included, adds exactly one
\* to it, with or without a drawing context; restore_clip leaves the stack
\* pointer and the top region as they were.
C25_StateNumber ==
  [][/\ fl_clip_state_number' >= fl_clip_state_number
     /\ call' \in {"restore_clip", "push_clip"} =>
          fl_clip_state_number' = fl_clip_state_number + 1
     /\ call' = "restore_clip" =>
          /\ rstackptr' = rstackptr
          /\ rstack'[rstackptr'] = rstack[rstackptr]]_vars

\* C25 witness: without a drawing context the stack was filled and one more
\* push was dropped, each of the pushes counted
C25_Witness ==
  /\ call = "push_clip" /\ warned /\ ~gc_
  /\ rstackptr = region_stack_max
  /\ fl_clip_state_number = region_stack_max + 1

\* C23: not_clipped returns 0 for every rectangle with x+w <= 0 or y+h <= 0,
\* whatever the stack holds; for every other rectangle on the display surface
\* it returns 1 when the top is the sentinel, and otherwise non-zero exactly
\* when [x, x+w) x [y, y+h) shares a pixel with the top region.
C23_NotClipped ==
  call = "not_clipped" =>
    IF query.x + query.w <= 0 \/ query.y + query.h <= 0
    THEN out.ret = 0
    ELSE IF top.null THEN out.ret = 1
    ELSE (out.ret # 0 <=> QueryShares)

\* C23 witness: nothing is clipped and a non-empty rectangle that ends at
\* column 0 is reported as clipped
C23_Witness ==
  /\ call = "not_clipped" /\ top.null
  /\ query.w > 0 /\ query.h > 0
  /\ query.x + query.w <= 0
  /\ out.ret = 0

\* the integers between a and b, both included, whichever is the larger
Between(a, b) == IF a <= b THEN a..b ELSE b..a

\* the pixels between the two end points of the last xyline or yxline call
EndToEnd == {<<i, j>> : i \in Between(pts[1][1], pts[2][1]), j \in Between(pts[1][2], pts[2][2])}

\* C24: xyline_unscaled(x,y,x1) draws every pixel of row y from x to x1
\* inclusive and yxline_unscaled(x,y,y1) every pixel of column x from y to y1
\* inclusive, for either ordering of the two end coordinates, and no pixel
\* outside that span (of the pixels the selected clip lets through).
C24_BothEnds ==
  call \in {"xyline", "yxline"} => drawn = Clipped(gc_, gc_clip, EndToEnd)

\* C21: when the native region allocation fails inside push_clip, the
\* effective clip after the call is no wider than the effective clip before
\* it: the failed push does not turn a clipped surface into an unclipped one.
C21_FailedPushNoWider ==
  [][call' = "push_clip_nomem" =>
       /\ Narrower(rstack'[rstackptr'], rstack[rstackptr])
       /\ gc_' => Narrower(gc_clip', gc_clip)]_vars

\* the device image of the last query rectangle on the current surface
QueryImage == XRectangleRegion_print(surface, query.x, query.y, query.w, query.h)

\* C22: on a print surface whose mapping is not the identity, clip_box's
\* status is 2 exactly when not_clipped returns 0 for the same logical
\* rectangle, and the partial-overlap rectangle clip_box reports is the
\* device-to-logical image of the bounding box of the clip region intersected
\* with the device image of the query rectangle (rectangles with w > 0, h > 0).
C22_PrintAgrees ==
  /\ (call = "not_clipped" /\ query.w > 0 /\ query.h > 0) =>
       (out.ret = 0 <=>
          clip_box_print(surface, top, query.x, query.y, query.w, query.h).ret = 2)
  /\ (call = "clip_box" /\ out.ret = 1) =>
       LET box == GetRgnBox(CombineRgn_AND(QueryImage, top))
       IN /\ out.X = DPtoLP(surface, box.left)
          /\ out.Y = DPtoLP(surface, box.top)
          /\ out.X + out.W = DPtoLP(surface, box.right)
          /\ out.Y + out.H = DPtoLP(surface, box.bottom)

\* a buffer no input of MaxSrcLen units fills
Roomy == 4 * MaxSrcLen + 1

\* the number of bytes utf8fromwc writes for src, the NUL left out, when the
\* destination buffer is large enough
Written(src) == utf8fromwc(Roomy, src).ret

\* C27: for every UTF-16 input, surrogate pairs and unpaired surrogates
\* included, the length utf8fromwc returns when it only measures (dstlen = 0,
\* or after the buffer has filled) equals the number of bytes it writes for
\* the same input into a buffer that is large enough; and whenever dstlen > 0
\* the output is NUL-terminated inside the first dstlen bytes of dst.
C27_MeasuredIsWritten ==
  call = "utf8fromwc" =>
    /\ utf_ret = Written(utf_src)
    /\ utf_dstlen > 0 => \E k \in 0..(utf_dstlen - 1) : utf_dst[k] = 0

\* the threads between a returned lock() and their unlock()
Locked == {t \in Threads : pc[t] = "locked"}

\* C26: for any interleaving of threads calling lock() and unlock(), two
\* concurrent first calls included, at most one thread is between a returned
\* lock() and its unlock(), the critical section is initialised exactly once,
\* and main_thread is set once, to the id of the first thread whose lock()
\* returned, and never changes afterwards.
C26_LockOnce ==
  [][/\ Cardinality({t \in Threads : pc'[t] = "locked"}) <= 1
     /\ cs'.inits <= 1
     /\ first_locked' # 0 => (cs'.inits = 1 /\ main_thread' = first_locked')
     /\ main_thread # 0 => main_thread' = main_thread]_vars

\* the threads between a returned lock_ring() and their unlock_ring()
RingLocked == {t \in Threads : pc[t] = "ring_locked"}

\* C28: for any interleaving of threads calling lock_ring() and
\* unlock_ring(), two concurrent first calls included, at most one thread is
\* between a returned lock_ring() and its unlock_ring(), and exactly one
\* critical-section object is ever allocated and initialised.
C28_RingOnce ==
  /\ Cardinality(RingLocked) <= 1
  /\ Len(ring) <= 1
  /\ \A p \in 1..Len(ring) : ring[p].inits <= 1
  /\ RingLocked # {} => (Len(ring) = 1 /\ ring[1].inits = 1)

====
